---------------------------- MODULE Spec2Model ----------------------------
(***************************************************************************)
(* The stdin/stdout bridge of claude_proxy_server.py (class ClaudeProxy):  *)
(* the main task (run: start, seed the session id, read loop, cleanup) and *)
(* the receive task (receive_from_claude) under asyncio's cooperative      *)
(* scheduling.  A step of the model is the code between two awaits.        *)
(***************************************************************************)
EXTENDS Naturals, Sequences, FiniteSets

VARIABLES
    mainPc,      \* where the main task is suspended
    recvPc,      \* where the receive task is suspended
    client,      \* self.client is set (not None)
    session_id,  \* self.session_id, the local id
    activeId,    \* self.active_session_id
    out,         \* standard output, one entry per printed line
    err,         \* standard error, one entry per written message
    calls,       \* the calls made on the SDK client (query, interrupt)
    fatal,       \* an exception is propagating out of run() through main()
    proc,        \* the process: running, exit0, exit1
    delivered,   \* history: the upstream events the stream has yielded
    lines,       \* history: the stdin lines readline() has returned
    blocks,      \* codec: the SDK content handed to _convert_content_blocks
    wire,        \* codec: its wire form
    text,        \* codec: the text handle_input extracts from the wire form
    cpc          \* codec: position

procVars  == <<mainPc, recvPc, client, session_id, activeId, out, err, calls,
               fatal, proc, delivered, lines>>
codecVars == <<blocks, wire, text, cpc>>
vars      == <<mainPc, recvPc, client, session_id, activeId, out, err, calls,
               fatal, proc, delivered, lines, blocks, wire, text, cpc>>

----------------------------------------------------------------------------
(* Bounds *)

\* lines read plus upstream events delivered in one run
MaxInputs == 3
\* content blocks in one message of the codec specification
MaxBlocks == 3

----------------------------------------------------------------------------
(* Values *)

\* a key that is not in a dict / a field that is not in a record
ABSENT == "<absent>"
\* Python None, JSON null
NULL == "<null>"
\* the empty string
EMPTY == ""
\* str(uuid.uuid4())
LocalId == "L"

\* Python truthiness of an optional string
Falsy(v) == v \in {NULL, EMPTY}

----------------------------------------------------------------------------
(* Content blocks *)

TextBlock(t)    == [cls |-> "TextBlock", text |-> t]
ToolUseBlock    == [cls |-> "ToolUseBlock", id |-> "t1", name |-> "Bash", input |-> "{}"]
ToolResultBlock == [cls |-> "ToolResultBlock", tool_use_id |-> "t1", content |-> "ok", is_error |-> FALSE]
ThinkingBlock   == [cls |-> "ThinkingBlock", thinking |-> <<"h", "m">>, signature |-> "sg"]
\* a block of a class the bridge does not know
OtherBlock      == [cls |-> "ServerToolBlock"]

\* message content as Python sees it: a str, a list of blocks, anything else
StrContent(s)   == [py |-> "str", val |-> s]
ListContent(bs) == [py |-> "list", val |-> bs]
ObjContent(s)   == [py |-> "other", val |-> s]

RECURSIVE ConvertBlockList(_)
ConvertBlockList(bs) ==
    IF bs = <<>> THEN <<>>
    ELSE LET block == Head(bs)
             rest  == ConvertBlockList(Tail(bs))
         IN  CASE block.cls = "TextBlock" ->
                    <<[type |-> "text", text |-> block.text]>> \o rest
               [] block.cls = "ToolUseBlock" ->
                    <<[type |-> "tool_use", id |-> block.id, name |-> block.name,
                       input |-> block.input]>> \o rest
               [] block.cls = "ToolResultBlock" ->
                    <<[type |-> "tool_result", tool_use_id |-> block.tool_use_id,
                       content |-> block.content, is_error |-> block.is_error]>> \o rest
               [] block.cls = "ThinkingBlock" ->
                    <<[type |-> "thinking", thinking |-> block.thinking,
                       signature |-> block.signature]>> \o rest
               [] OTHER -> rest

\* _convert_content_blocks
ConvertContentBlocks(content) ==
    CASE content.py = "str"  -> <<[type |-> "text", text |-> content.val]>>
      [] content.py = "list" -> ConvertBlockList(content.val)
      [] OTHER               -> <<[type |-> "text", text |-> content.val]>>

\* variant of ExtractText: takes the text of any block that has some
RECURSIVE ExtractText_Any(_)
ExtractText_Any(content_blocks) ==
    IF content_blocks = <<>> THEN <<>>
    ELSE LET block == Head(content_blocks)
         IN  (IF "text" \in DOMAIN block THEN block.text
              ELSE IF "thinking" \in DOMAIN block THEN block.thinking
              ELSE <<>>)
             \o ExtractText_Any(Tail(content_blocks))

\* handle_input's text extraction: text_content += block.get("text", "") for
\* every dict block whose type is "text".  Text is a sequence of characters.
RECURSIVE ExtractText(_)
ExtractText(content_blocks) ==
    IF content_blocks = <<>> THEN <<>>
    ELSE LET block == Head(content_blocks)
         IN  (IF block.type = "text"
              THEN (IF "text" \in DOMAIN block THEN block.text ELSE <<>>)
              ELSE <<>>)
             \o ExtractText(Tail(content_blocks))

----------------------------------------------------------------------------
(* Upstream events: what client.receive_messages() yields *)

\* the content of the User and Assistant events of the model
EventContent == ListContent(<<TextBlock(<<"2">>), ToolUseBlock, TextBlock(<<"+", "2">>)>>)

UserMessage      == [cls |-> "UserMessage", content |-> EventContent]
AssistantMessage == [cls |-> "AssistantMessage", content |-> EventContent, model |-> "m1"]
\* data is a dict; sid is its session_id entry (ABSENT: no such key)
SystemMessage(subtype, sid) ==
    [cls |-> "SystemMessage", subtype |-> subtype, data |-> "dict", sid |-> sid]
\* a SystemMessage whose data is not a container: "session_id" in data raises
SystemMessageNoData(subtype) ==
    [cls |-> "SystemMessage", subtype |-> subtype, data |-> "none", sid |-> ABSENT]
ResultMessage(sid) == [cls |-> "ResultMessage", subtype |-> "success", session_id |-> sid]
\* an event of a class the bridge does not know
StreamEvent      == [cls |-> "StreamEvent", str |-> "StreamEvent(...)"]

Events ==
    {UserMessage, AssistantMessage, StreamEvent}
    \cup {SystemMessage("init", s) : s \in {ABSENT, NULL, "S1"}}
    \cup {SystemMessage("status", ABSENT), SystemMessageNoData("init")}
    \cup {ResultMessage(s) : s \in {NULL, "S1"}}

----------------------------------------------------------------------------
(* Output records *)

\* one printed JSON object; a key the object does not have is ABSENT.
\* error: data.error or response.error.  copied: what is copied through from
\* the input (message.model, the session_id entry of data, data.content).
Record(type, subtype, sid) ==
    [type |-> type, subtype |-> subtype, session_id |-> sid, request_id |-> ABSENT,
     message_type |-> ABSENT, error |-> ABSENT, copied |-> ABSENT, content |-> <<>>]

\* variant of ConversionError: the record lacks message_type
ConversionError_NoType(message) ==
    [Record("system", "conversion_error", ABSENT) EXCEPT !.error = "str(e)"]

\* the except clause of convert_to_stream_json
ConversionError(message) ==
    [Record("system", "conversion_error", ABSENT)
        EXCEPT !.error = "str(e)", !.message_type = message.cls]

\* variant of UnknownMessage: an unknown class is treated as a failure
UnknownMessage_Raises(message) ==
    [Record("system", "conversion_error", ABSENT)
        EXCEPT !.error = "str(e)", !.message_type = message.cls]

\* the else branch of convert_to_stream_json
UnknownMessage(message) ==
    [Record("system", "unknown_message", ABSENT)
        EXCEPT !.message_type = message.cls, !.copied = message.str]

\* the try body of convert_to_stream_json raises on this event
ConvertRaises(message) ==
    /\ message.cls = "SystemMessage"
    /\ message.subtype = "init"
    /\ message.data = "none"

\* variant of InitSessionId: else instead of elif not self.active_session_id
InitSessionId_AlwaysFallback(message, active, local) ==
    IF message.sid # ABSENT THEN message.sid ELSE local

\* the init branch of convert_to_stream_json: the new active_session_id
InitSessionId(message, active, local) ==
    IF message.sid # ABSENT THEN message.sid
    ELSE IF Falsy(active) THEN local
    ELSE active

\* variant of IsInitSubtype: every system message updates the session id
IsInitSubtype_Any(message) == TRUE

\* if message.subtype == "init"
IsInitSubtype(message) == message.subtype = "init"

\* variant of EnvelopeSessionId: the id read before the init branch ran
EnvelopeSessionId_Stale(before, after) == before

\* the session_id of the system record: self.active_session_id, read when the
\* dict is built, after the init branch (before: its value on entry)
EnvelopeSessionId(before, after) == after

\* convert_to_stream_json: the record returned and self.active_session_id after it
ConvertToStreamJson(message, active, local) ==
    IF ConvertRaises(message)
    THEN [rec |-> ConversionError(message), active |-> active]
    ELSE CASE message.cls = "UserMessage" ->
                [rec |-> [Record("user", ABSENT, active)
                            EXCEPT !.content = ConvertContentBlocks(message.content)],
                 active |-> active]
           [] message.cls = "AssistantMessage" ->
                [rec |-> [Record("assistant", ABSENT, active)
                            EXCEPT !.content = ConvertContentBlocks(message.content),
                                   !.copied = message.model],
                 active |-> active]
           [] message.cls = "SystemMessage" ->
                LET a == IF IsInitSubtype(message)
                         THEN InitSessionId(message, active, local)
                         ELSE active
                IN  [rec |-> [Record("system", message.subtype,
                                     EnvelopeSessionId(active, a))
                                EXCEPT !.copied = message.sid],
                     active |-> a]
           [] message.cls = "ResultMessage" ->
                [rec |-> Record("result", message.subtype,
                                IF Falsy(message.session_id) THEN active
                                ELSE message.session_id),
                 active |-> active]
           [] OTHER ->
                [rec |-> UnknownMessage(message), active |-> active]

----------------------------------------------------------------------------
(* Client lines: what reader.readline() returns before end of input *)

\* the content list of the user lines of the model
LineContent ==
    <<[type |-> "text", text |-> <<"h">>],
      [type |-> "tool_result", tool_use_id |-> "t1", content |-> "ok", is_error |-> FALSE],
      [type |-> "text", text |-> <<"i">>]>>

\* bytes:   "invalid_utf8" | "blank" (only whitespace) | "text" | "eof"
\* json:    "invalid" | "scalar" (valid JSON, not an object) | "object"
\* type:    the object's "type" entry
\* message: "absent" | "dict";  content: "absent" | "null" | "list"
\* sid:     the object's "session_id" entry;  rid: its "request_id" entry
\* request: "absent" | "null" | the subtype of the request object
Line(bytes, json, type, message, content, sid, rid, request) ==
    [bytes |-> bytes, json |-> json, type |-> type, message |-> message,
     content |-> content, sid |-> sid, rid |-> rid, request |-> request]

InvalidUtf8Line == Line("invalid_utf8", "invalid", ABSENT, "absent", "absent", ABSENT, ABSENT, "absent")
BlankLine       == Line("blank", "invalid", ABSENT, "absent", "absent", ABSENT, ABSENT, "absent")
NotJsonLine     == Line("text", "invalid", ABSENT, "absent", "absent", ABSENT, ABSENT, "absent")
ScalarLine      == Line("text", "scalar", ABSENT, "absent", "absent", ABSENT, ABSENT, "absent")
UserLine(sid)   == Line("text", "object", "user", "dict", "list", sid, ABSENT, "absent")
UserLineNoMessage   == Line("text", "object", "user", "absent", "absent", "S2", ABSENT, "absent")
UserLineNullContent == Line("text", "object", "user", "dict", "null", "S2", ABSENT, "absent")
ControlLine(rid, request) ==
    Line("text", "object", "control_request", "absent", "absent", ABSENT, rid, request)
OtherTypeLine   == Line("text", "object", "ping", "absent", "absent", ABSENT, ABSENT, "absent")
\* readline() returned b"": end of input
EofLine         == Line("eof", "invalid", ABSENT, "absent", "absent", ABSENT, ABSENT, "absent")

Lines ==
    {InvalidUtf8Line, BlankLine, NotJsonLine, ScalarLine, OtherTypeLine,
     UserLineNoMessage, UserLineNullContent}
    \cup {UserLine(s) : s \in {ABSENT, NULL, "S2"}}
    \cup {ControlLine(r, "interrupt") : r \in {"r1", "r2"}}
    \cup {ControlLine("r1", "set_mode"), ControlLine("r1", "null")}

\* the records of the except clauses of handle_input, run and receive_from_claude
ErrorRecord(subtype) == [Record("system", subtype, ABSENT) EXCEPT !.error = "str(e)"]

\* the control_response of handle_input
ControlResponse(request_id) ==
    [Record("control_response", "interrupt", ABSENT)
        EXCEPT !.request_id = request_id, !.error = NULL]

\* what handle_input does with a line up to its first await or its return:
\*   active: self.active_session_id afterwards
\*   emit:   the records printed (by the except clauses)
\*   await:  "none" | "query" | "interrupt", the SDK call it suspends in
\*   text, sid: the arguments of query;  rid: the request_id of the response
Handled(active, emit, aw, txt, sid, rid) ==
    [active |-> active, emit |-> emit, await |-> aw, text |-> txt, sid |-> sid, rid |-> rid]

\* variant of ResolveSessionId: the session_id entry of the line is not read
ResolveSessionId_LocalOnly(line, local) == local

\* the session id handle_input resolves from a user line:
\* data.get("session_id", self.session_id)
ResolveSessionId(line, local) == IF line.sid = ABSENT THEN local ELSE line.sid

\* variant of HandleInterrupt: the control_response is printed before the await
HandleInterrupt_RespondFirst(line, active) ==
    Handled(active, <<ControlResponse(IF line.rid = ABSENT THEN NULL ELSE line.rid)>>,
            "interrupt", <<>>, ABSENT, IF line.rid = ABSENT THEN NULL ELSE line.rid)

\* handle_input, subtype == "interrupt", up to await self.client.interrupt()
HandleInterrupt(line, active) ==
    Handled(active, <<>>, "interrupt", <<>>, ABSENT,
            IF line.rid = ABSENT THEN NULL ELSE line.rid)

\* variant of Ignored: a line that is not handled is answered with an error
Ignored_Reports(active) ==
    Handled(active, <<ErrorRecord("error")>>, "none", <<>>, ABSENT, ABSENT)

\* handle_input falls through: no branch for this type or this subtype
Ignored(active) == Handled(active, <<>>, "none", <<>>, ABSENT, ABSENT)

\* handle_input
HandleInput(line, active, local) ==
    IF line.json = "invalid"
    THEN \* json.JSONDecodeError
         Handled(active, <<ErrorRecord("parse_error")>>, "none", <<>>, ABSENT, ABSENT)
    ELSE IF line.json = "scalar"
    THEN \* data.get: AttributeError
         Handled(active, <<ErrorRecord("error")>>, "none", <<>>, ABSENT, ABSENT)
    ELSE IF line.type = "user"
    THEN IF line.message = "absent"
         THEN \* data["message"]: KeyError
              Handled(active, <<ErrorRecord("error")>>, "none", <<>>, ABSENT, ABSENT)
         ELSE LET sid == ResolveSessionId(line, local)
              IN  IF line.content = "null"
                  THEN \* for block in None: TypeError, after the assignment
                       Handled(sid, <<ErrorRecord("error")>>, "none", <<>>, ABSENT, ABSENT)
                  ELSE Handled(sid, <<>>, "query",
                               ExtractText(IF line.content = "list" THEN LineContent ELSE <<>>),
                               sid, ABSENT)
    ELSE IF line.type = "control_request"
    THEN IF line.request = "null"
         THEN \* request.get: AttributeError
              Handled(active, <<ErrorRecord("error")>>, "none", <<>>, ABSENT, ABSENT)
         ELSE IF line.request = "interrupt"
         THEN HandleInterrupt(line, active)
         ELSE Ignored(active)
    ELSE Ignored(active)

\* variant of ReadIteration: no "if line:" before handle_input
ReadIteration_NoBlankCheck(line, active, local) ==
    IF line.bytes = "invalid_utf8"
    THEN Handled(active, <<ErrorRecord("error")>>, "none", <<>>, ABSENT, ABSENT)
    ELSE HandleInput(line, active, local)

\* one iteration of run's loop on a line that is not end of input, up to the
\* first await of handle_input: decode, strip, if line: handle_input(line)
ReadIteration(line, active, local) ==
    IF line.bytes = "invalid_utf8"
    THEN \* UnicodeDecodeError, caught by run's except Exception
         Handled(active, <<ErrorRecord("error")>>, "none", <<>>, ABSENT, ABSENT)
    ELSE IF line.bytes = "blank"
    THEN Handled(active, <<>>, "none", <<>>, ABSENT, ABSENT)
    ELSE HandleInput(line, active, local)

----------------------------------------------------------------------------
(* The process *)

\* print(json.dumps(rec), flush=True): a line on standard output, tagged with
\* the input it answers (ev: index in delivered, ln: index in lines, 0: none)
PrintLine(o, rec, ev, ln) == Append(o, [rec |-> rec, ev |-> ev, ln |-> ln])

RECURSIVE PrintAll(_, _, _, _)
PrintAll(o, recs, ev, ln) ==
    IF recs = <<>> THEN o
    ELSE PrintAll(PrintLine(o, Head(recs), ev, ln), Tail(recs), ev, ln)

\* a call on the SDK client, made for line ln
Call(op, txt, sid, ln) ==
    [op |-> op, text |-> txt, session_id |-> sid, ln |-> ln, status |-> "pending"]

\* the last call made (the one the main task is suspended in) ends
Settle(cs, status) == [cs EXCEPT ![Len(cs)].status = status]

\* what the environment has supplied so far: the readline() results (end of
\* input among them), the events of the stream and the way the stream ended
NInputs ==
    Len(delivered) + Len(lines) + (IF recvPc \in {"ended", "failed"} THEN 1 ELSE 0)

Running == proc = "running"

\* the codec before it is applied to content
CodecIdle(content) ==
    /\ blocks = content
    /\ wire = <<>>
    /\ text = <<>>
    /\ cpc = "idle"

\* the state after ClaudeProxy() (__init__)
Init ==
    /\ mainPc = "new"
    /\ recvPc = "none"
    /\ client = FALSE
    /\ session_id = LocalId
    /\ activeId = NULL
    /\ out = <<>>
    /\ err = <<>>
    /\ calls = <<>>
    /\ fatal = FALSE
    /\ proc = "running"
    /\ delivered = <<>>
    /\ lines = <<>>
    /\ CodecIdle(ListContent(<<>>))

\* main -> run -> start, up to await self.client.connect()
Start ==
    /\ Running /\ mainPc = "new"
    /\ client' = TRUE
    /\ mainPc' = "connect"
    /\ UNCHANGED <<recvPc, session_id, activeId, out, err, calls, fatal, proc,
                   delivered, lines>>
    /\ UNCHANGED codecVars

\* variant of ConnectOk: run() yields to the event loop between start() and
\* the assignment of active_session_id, so the receive task runs first
ConnectOk_SeedLater ==
    /\ Running /\ mainPc = "connect"
    /\ IF recvPc = "none"
       THEN recvPc' = "wait" /\ UNCHANGED <<activeId, mainPc>>
       ELSE activeId' = session_id /\ mainPc' = "pipe" /\ UNCHANGED recvPc
    /\ UNCHANGED <<client, session_id, out, err, calls, fatal, proc, delivered, lines>>
    /\ UNCHANGED codecVars

\* connect() returns: create_task(receive_from_claude()), start returns, run
\* seeds active_session_id, up to await loop.connect_read_pipe(...)
ConnectOk ==
    /\ Running /\ mainPc = "connect"
    /\ recvPc' = "wait"
    /\ activeId' = session_id
    /\ mainPc' = "pipe"
    /\ UNCHANGED <<client, session_id, out, err, calls, fatal, proc, delivered, lines>>
    /\ UNCHANGED codecVars

\* variant of ConnectFail: the failure is also printed as a system/error record
ConnectFail_Reports ==
    /\ Running /\ mainPc = "connect"
    /\ err' = Append(err, "Fatal error")
    /\ out' = PrintLine(out, ErrorRecord("error"), 0, 0)
    /\ fatal' = TRUE
    /\ mainPc' = IF client THEN "disconnect" ELSE "done"
    /\ UNCHANGED <<recvPc, client, session_id, activeId, calls, proc, delivered, lines>>
    /\ UNCHANGED codecVars

\* connect() raises: main writes "Fatal error", re-raises, and its finally
\* clause runs cleanup up to await self.client.disconnect()
ConnectFail ==
    /\ Running /\ mainPc = "connect"
    /\ err' = Append(err, "Fatal error")
    /\ fatal' = TRUE
    /\ mainPc' = IF client THEN "disconnect" ELSE "done"
    /\ UNCHANGED <<recvPc, client, session_id, activeId, out, calls, proc,
                   delivered, lines>>
    /\ UNCHANGED codecVars

\* connect_read_pipe returns: the loop reaches await reader.readline()
PipeConnected ==
    /\ Running /\ mainPc = "pipe"
    /\ mainPc' = "read"
    /\ UNCHANGED <<recvPc, client, session_id, activeId, out, err, calls, fatal,
                   proc, delivered, lines>>
    /\ UNCHANGED codecVars

\* variant of ReadLine: handle_input is started as a task and the loop goes
\* back to readline() without waiting for the SDK call
ReadLine_Pipelined(line) ==
    /\ Running /\ mainPc = "read"
    /\ NInputs < MaxInputs
    /\ LET n == Len(lines) + 1
           h == ReadIteration(line, activeId, session_id)
       IN  /\ lines' = Append(lines, line)
           /\ activeId' = h.active
           /\ out' = PrintAll(out, h.emit, 0, n)
           /\ calls' = IF h.await = "none" THEN calls
                       ELSE Append(calls, Call(h.await, h.text, h.sid, n))
           /\ mainPc' = "read"
    /\ UNCHANGED <<recvPc, client, session_id, err, fatal, proc, delivered>>
    /\ UNCHANGED codecVars

\* readline() returns a line: one iteration of the loop up to its next await
ReadLine(line) ==
    /\ Running /\ mainPc = "read"
    /\ NInputs < MaxInputs
    /\ LET n == Len(lines) + 1
           h == ReadIteration(line, activeId, session_id)
       IN  /\ lines' = Append(lines, line)
           /\ activeId' = h.active
           /\ out' = PrintAll(out, h.emit, 0, n)
           /\ calls' = IF h.await = "none" THEN calls
                       ELSE Append(calls, Call(h.await, h.text, h.sid, n))
           /\ mainPc' = IF h.await = "none" THEN "read" ELSE h.await
    /\ UNCHANGED <<recvPc, client, session_id, err, fatal, proc, delivered>>
    /\ UNCHANGED codecVars

\* await self.client.query(...) returns: handle_input returns, next readline
QueryReturn ==
    /\ Running /\ mainPc = "query"
    /\ calls' = Settle(calls, "returned")
    /\ mainPc' = "read"
    /\ UNCHANGED <<recvPc, client, session_id, activeId, out, err, fatal, proc,
                   delivered, lines>>
    /\ UNCHANGED codecVars

\* await self.client.query(...) raises: handle_input's except Exception
QueryRaise ==
    /\ Running /\ mainPc = "query"
    /\ calls' = Settle(calls, "raised")
    /\ out' = PrintLine(out, ErrorRecord("error"), 0, Len(lines))
    /\ mainPc' = "read"
    /\ UNCHANGED <<recvPc, client, session_id, activeId, err, fatal, proc,
                   delivered, lines>>
    /\ UNCHANGED codecVars

\* the request_id of the control_request being handled
PendingRequestId ==
    LET line == lines[Len(lines)] IN IF line.rid = ABSENT THEN NULL ELSE line.rid

\* await self.client.interrupt() returns: the control_response is printed
InterruptReturn ==
    /\ Running /\ mainPc = "interrupt"
    /\ calls' = Settle(calls, "returned")
    /\ out' = PrintLine(out, ControlResponse(PendingRequestId), 0, Len(lines))
    /\ mainPc' = "read"
    /\ UNCHANGED <<recvPc, client, session_id, activeId, err, fatal, proc,
                   delivered, lines>>
    /\ UNCHANGED codecVars

\* variant of InterruptRaise: the control_response is printed in spite of the
\* failure, after the error record
InterruptRaise_AlsoResponds ==
    /\ Running /\ mainPc = "interrupt"
    /\ calls' = Settle(calls, "raised")
    /\ out' = PrintLine(PrintLine(out, ErrorRecord("error"), 0, Len(lines)),
                        ControlResponse(PendingRequestId), 0, Len(lines))
    /\ mainPc' = "read"
    /\ UNCHANGED <<recvPc, client, session_id, activeId, err, fatal, proc,
                   delivered, lines>>
    /\ UNCHANGED codecVars

\* await self.client.interrupt() raises: handle_input's except Exception
InterruptRaise ==
    /\ Running /\ mainPc = "interrupt"
    /\ calls' = Settle(calls, "raised")
    /\ out' = PrintLine(out, ErrorRecord("error"), 0, Len(lines))
    /\ mainPc' = "read"
    /\ UNCHANGED <<recvPc, client, session_id, activeId, err, fatal, proc,
                   delivered, lines>>
    /\ UNCHANGED codecVars

\* readline() returns b"": break, run returns, main's finally runs cleanup
\* up to await self.client.disconnect()
Eof ==
    /\ Running /\ mainPc = "read"
    /\ NInputs < MaxInputs
    /\ lines' = Append(lines, EofLine)
    /\ mainPc' = IF client THEN "disconnect" ELSE "done"
    /\ UNCHANGED <<recvPc, client, session_id, activeId, out, err, calls, fatal,
                   proc, delivered>>
    /\ UNCHANGED codecVars

\* disconnect() returns: cleanup and main are over
DisconnectReturn ==
    /\ Running /\ mainPc = "disconnect"
    /\ mainPc' = "done"
    /\ UNCHANGED <<recvPc, client, session_id, activeId, out, err, calls, fatal,
                   proc, delivered, lines>>
    /\ UNCHANGED codecVars

\* variant of DisconnectRaise: the failure is also printed as a system/error
\* record on standard output
DisconnectRaise_Reports ==
    /\ Running /\ mainPc = "disconnect"
    /\ err' = Append(err, "Cleanup error")
    /\ out' = PrintLine(out, ErrorRecord("error"), 0, 0)
    /\ mainPc' = "done"
    /\ UNCHANGED <<recvPc, client, session_id, activeId, calls, fatal, proc,
                   delivered, lines>>
    /\ UNCHANGED codecVars

\* disconnect() raises: cleanup writes "Cleanup error" and swallows it
DisconnectRaise ==
    /\ Running /\ mainPc = "disconnect"
    /\ err' = Append(err, "Cleanup error")
    /\ mainPc' = "done"
    /\ UNCHANGED <<recvPc, client, session_id, activeId, out, calls, fatal, proc,
                   delivered, lines>>
    /\ UNCHANGED codecVars

\* variant of ReceiveOutput: nothing is printed for an unknown message
ReceiveOutput_SkipUnknown(output) ==
    IF output.subtype = "unknown_message" THEN <<>> ELSE <<output>>

\* what the receive loop prints for a converted message: if output: print(...)
ReceiveOutput(output) == <<output>>

\* variant of Receive: one loop serves both directions, an event is taken
\* from the stream only when the main task is back at readline()
Receive_WhenReading(message) ==
    /\ Running /\ recvPc = "wait"
    /\ mainPc = "read"
    /\ NInputs < MaxInputs
    /\ LET c == ConvertToStreamJson(message, activeId, session_id)
       IN  /\ activeId' = c.active
           /\ out' = PrintAll(out, ReceiveOutput(c.rec), Len(delivered) + 1, 0)
    /\ delivered' = Append(delivered, message)
    /\ UNCHANGED <<mainPc, recvPc, client, session_id, err, calls, fatal, proc, lines>>
    /\ UNCHANGED codecVars

\* the stream yields a message: convert, print, next iteration
Receive(message) ==
    /\ Running /\ recvPc = "wait"
    /\ NInputs < MaxInputs
    /\ LET c == ConvertToStreamJson(message, activeId, session_id)
       IN  /\ activeId' = c.active
           /\ out' = PrintAll(out, ReceiveOutput(c.rec), Len(delivered) + 1, 0)
    /\ delivered' = Append(delivered, message)
    /\ UNCHANGED <<mainPc, recvPc, client, session_id, err, calls, fatal, proc, lines>>
    /\ UNCHANGED codecVars

\* the stream ends: the async for is over, the task returns
StreamEnd ==
    /\ Running /\ recvPc = "wait"
    /\ NInputs < MaxInputs
    /\ recvPc' = "ended"
    /\ UNCHANGED <<mainPc, client, session_id, activeId, out, err, calls, fatal,
                   proc, delivered, lines>>
    /\ UNCHANGED codecVars

\* the stream raises: except Exception prints one system/error record
StreamError ==
    /\ Running /\ recvPc = "wait"
    /\ NInputs < MaxInputs
    /\ out' = PrintLine(out, ErrorRecord("error"), 0, 0)
    /\ recvPc' = "failed"
    /\ UNCHANGED <<mainPc, client, session_id, activeId, err, calls, fatal, proc,
                   delivered, lines>>
    /\ UNCHANGED codecVars

\* variant of CancelReceive: no except CancelledError, the error is printed
CancelReceive_Reports ==
    /\ Running /\ mainPc = "done" /\ recvPc = "wait"
    /\ out' = PrintLine(out, ErrorRecord("error"), 0, 0)
    /\ recvPc' = "cancelled"
    /\ UNCHANGED <<mainPc, client, session_id, activeId, err, calls, fatal, proc,
                   delivered, lines>>
    /\ UNCHANGED codecVars

\* main is over and asyncio.run cancels the tasks left: except CancelledError
CancelReceive ==
    /\ Running /\ mainPc = "done" /\ recvPc = "wait"
    /\ recvPc' = "cancelled"
    /\ UNCHANGED <<mainPc, client, session_id, activeId, out, err, calls, fatal,
                   proc, delivered, lines>>
    /\ UNCHANGED codecVars

\* asyncio.run(main()) returns or raises: sys.exit(1) on an exception
Exit ==
    /\ Running /\ mainPc = "done" /\ recvPc # "wait"
    /\ proc' = IF fatal THEN "exit1" ELSE "exit0"
    /\ UNCHANGED <<mainPc, recvPc, client, session_id, activeId, out, err, calls,
                   fatal, delivered, lines>>
    /\ UNCHANGED codecVars

Next ==
    \/ Start
    \/ ConnectOk
    \/ ConnectFail
    \/ PipeConnected
    \/ \E line \in Lines : ReadLine(line)
    \/ QueryReturn
    \/ QueryRaise
    \/ InterruptReturn
    \/ InterruptRaise
    \/ Eof
    \/ DisconnectReturn
    \/ DisconnectRaise
    \/ \E message \in Events : Receive(message)
    \/ StreamEnd
    \/ StreamError
    \/ CancelReceive
    \/ Exit

Spec == Init /\ [][Next]_vars

----------------------------------------------------------------------------
(* The two loops under the scheduling of the event loop: a session that
   starts, with lines and events always on offer, SDK calls that may never
   end and a stream that may end *)

LiveLines  == {UserLine("S2"), ControlLine("r1", "interrupt")}
LiveEvents == {AssistantMessage, SystemMessage("init", "S1")}

NextLive ==
    \/ Start
    \/ ConnectOk
    \/ PipeConnected
    \/ \E line \in LiveLines : ReadLine(line)
    \/ QueryReturn
    \/ InterruptReturn
    \/ \E message \in LiveEvents : Receive(message)
    \/ StreamEnd

\* the event loop runs a task whose await can complete: the main task on its
\* way to readline() and at readline() when a line is there, the receive task
\* when the stream has an event; nothing makes an SDK call or the stream end
Fairness ==
    /\ WF_vars(Start)
    /\ WF_vars(ConnectOk)
    /\ WF_vars(PipeConnected)
    /\ WF_vars(\E line \in LiveLines : ReadLine(line))
    /\ WF_vars(\E message \in LiveEvents : Receive(message))

SpecLive == Init /\ [][NextLive]_vars /\ Fairness

----------------------------------------------------------------------------
(* The codec alone: content encoded to wire form, then read back as text *)

BlockSet ==
    {TextBlock(<<"2">>), TextBlock(<<"+", "2">>), TextBlock(<<>>),
     ToolUseBlock, ToolResultBlock, ThinkingBlock, OtherBlock}

CodecInputs ==
    {ListContent(bs) : bs \in UNION {[1..n -> BlockSet] : n \in 0..MaxBlocks}}
    \cup {StrContent(<<"h", "i">>), ObjContent(<<"7">>)}

InitCodec ==
    /\ mainPc = "new" /\ recvPc = "none" /\ client = FALSE
    /\ session_id = LocalId /\ activeId = NULL
    /\ out = <<>> /\ err = <<>> /\ calls = <<>>
    /\ fatal = FALSE /\ proc = "running"
    /\ delivered = <<>> /\ lines = <<>>
    /\ \E content \in CodecInputs : CodecIdle(content)

\* _convert_content_blocks(content), written as JSON and parsed back
Encode ==
    /\ cpc = "idle"
    /\ wire' = ConvertContentBlocks(blocks)
    /\ cpc' = "encoded"
    /\ UNCHANGED <<blocks, text>>
    /\ UNCHANGED procVars

\* the text loop of handle_input over the parsed content
Extract ==
    /\ cpc = "encoded"
    /\ text' = ExtractText(wire)
    /\ cpc' = "extracted"
    /\ UNCHANGED <<blocks, wire>>
    /\ UNCHANGED procVars

NextCodec == Encode \/ Extract

SpecCodec == InitCodec /\ [][NextCodec]_vars

----------------------------------------------------------------------------
(* Properties *)

\* the step delivers an upstream event / reads a line (end of input included)
EventStep == Len(delivered') = Len(delivered) + 1
LineStep  == Len(lines') = Len(lines) + 1
NewEvent  == delivered'[Len(delivered')]
NewLine   == lines'[Len(lines')]

IsInit(message) ==
    message.cls = "SystemMessage" /\ message.subtype = "init" /\ message.data = "dict"

\* a user line handle_input accepts: a message object with a content list
IsUserLine(line) ==
    /\ line.bytes = "text" /\ line.json = "object" /\ line.type = "user"
    /\ line.message = "dict" /\ line.content # "null"

IsInterruptLine(line) ==
    /\ line.bytes = "text" /\ line.json = "object"
    /\ line.type = "control_request" /\ line.request = "interrupt"

\* the entries of standard output printed for upstream events
FromEvents(o) == SelectSeq(o, LAMBDA e : e.ev > 0)

\* the entries of standard output printed for line i
ForLine(i) == {k \in DOMAIN out : out[k].ln = i}

\* the SDK calls made for line i
CallsFor(i) == {k \in DOMAIN calls : calls[k].ln = i}

\* C1: session precedence, at every step of every interleaving: an init event
\* whose data carries a (non-empty) session_id S1 sets activeId to S1; a user
\* line carrying a (non-empty) session_id S2 sets activeId to S2; an init event
\* without a session_id entry, met while activeId is such an id, leaves activeId
\* as it is and does not fall back to the local id.
C1_SessionPrecedence ==
    [][ /\ (EventStep /\ IsInit(NewEvent) /\ NewEvent.sid \notin {ABSENT, NULL, EMPTY})
            => activeId' = NewEvent.sid
        /\ (LineStep /\ IsUserLine(NewLine) /\ NewLine.sid \notin {ABSENT, NULL, EMPTY})
            => activeId' = NewLine.sid
        /\ (EventStep /\ IsInit(NewEvent) /\ NewEvent.sid = ABSENT /\ ~Falsy(activeId))
            => activeId' = activeId
      ]_vars

\* init S1, then a user line with S2, then an init without session_id: the
\* last record printed is that init's and carries S2
C1_Witness ==
    /\ delivered = <<SystemMessage("init", "S1"), SystemMessage("init", ABSENT)>>
    /\ lines = <<UserLine("S2")>>
    /\ Len(out) = 2
    /\ out[1].ev = 1 /\ out[1].rec.session_id = "S1"
    /\ out[2].ev = 2 /\ out[2].rec.session_id = "S2"
    /\ activeId = "S2" /\ activeId # session_id

\* the read loop has been entered: run() has seeded the id and reads input
AcceptingInput == recvPc # "none" /\ mainPc # "pipe"

\* C2: once run() has seeded the session and reads input, activeId is never
\* null and never the empty string.
C2_ActiveIdNeverEmpty == AcceptingInput => ~Falsy(activeId)

\* the line is not a JSON text: json.loads would reject what was read
NotValidJson(line) == line.bytes # "eof" /\ line.json = "invalid"

\* C3 as stated: every line that is not valid JSON prints exactly one
\* system/parse_error record, makes no SDK call, leaves activeId alone, and the
\* loop goes on reading.
C3_EveryInvalidLineParseError ==
    [][ (LineStep /\ NotValidJson(NewLine))
            => /\ out' = PrintLine(out, ErrorRecord("parse_error"), 0, Len(lines'))
               /\ calls' = calls
               /\ activeId' = activeId
               /\ mainPc' = "read"
      ]_vars

\* C3, amended: a line that decodes as UTF-8, is not blank and is not valid
\* JSON prints exactly one system/parse_error record; a blank line prints
\* nothing; a line that is not UTF-8 prints exactly one system/error record;
\* each of them makes no SDK call, leaves activeId alone, and the loop goes on
\* reading the next line.
C3_MalformedLine ==
    [][ (LineStep /\ NotValidJson(NewLine))
            => /\ out' = CASE NewLine.bytes = "text" ->
                                PrintLine(out, ErrorRecord("parse_error"), 0, Len(lines'))
                           [] NewLine.bytes = "blank" -> out
                           [] OTHER -> PrintLine(out, ErrorRecord("error"), 0, Len(lines'))
               /\ calls' = calls
               /\ activeId' = activeId
               /\ mainPc' = "read"
      ]_vars

\* "not json", then a valid user line: one parse_error, then one query
C3_Witness ==
    /\ lines = <<NotJsonLine, UserLine("S2")>>
    /\ \E k \in DOMAIN out : ForLine(1) = {k} /\ out[k].rec = ErrorRecord("parse_error")
    /\ Len(calls) = 1 /\ calls[1].op = "query" /\ calls[1].ln = 2
    /\ calls[1].status = "returned"
    /\ mainPc = "read"

\* C4: every interrupt request makes exactly one interrupt call; once that call
\* has returned there is exactly one control_response for the request, with its
\* request_id, subtype interrupt and error null, and none before; every
\* control_response printed answers an interrupt request that was read.
C4_InterruptFlow ==
    /\ \A i \in DOMAIN lines :
          IsInterruptLine(lines[i]) =>
             /\ Cardinality(CallsFor(i)) = 1
             /\ \A k \in CallsFor(i) : calls[k].op = "interrupt"
             /\ Cardinality({k \in ForLine(i) : out[k].rec.type = "control_response"})
                   = (IF \E k \in CallsFor(i) : calls[k].status = "returned" THEN 1 ELSE 0)
    /\ \A k \in DOMAIN out :
          out[k].rec.type = "control_response" =>
             /\ out[k].ln \in DOMAIN lines
             /\ IsInterruptLine(lines[out[k].ln])
             /\ out[k].rec.request_id = lines[out[k].ln].rid
             /\ out[k].rec.subtype = "interrupt"
             /\ out[k].rec.error = NULL
    /\ \A k \in DOMAIN calls :
          calls[k].op = "interrupt" => IsInterruptLine(lines[calls[k].ln])

\* two interrupt requests answered, each once, in order
C4_Witness ==
    /\ lines = <<ControlLine("r1", "interrupt"), ControlLine("r2", "interrupt")>>
    /\ Len(calls) = 2 /\ calls[1].status = "returned" /\ calls[2].status = "returned"
    /\ Len(out) = 2
    /\ out[1].rec = ControlResponse("r1") /\ out[2].rec = ControlResponse("r2")

\* C5: every upstream event delivered has exactly one record on standard
\* output, and these records are in the order of delivery, whatever the read
\* loop prints in between.
C5_EventOrder ==
    /\ Len(FromEvents(out)) = Len(delivered)
    /\ \A k \in 1..Len(delivered) : FromEvents(out)[k].ev = k

\* two events with a record of the read loop printed between theirs
C5_Witness ==
    /\ Len(delivered) = 2 /\ Len(out) = 3
    /\ out[1].ev = 1 /\ out[2].ln = 1 /\ out[3].ev = 2
    /\ out[2].rec.type = "control_response"

\* the record type the mapping table gives an event class
TypeOf(cls) ==
    CASE cls = "UserMessage"      -> "user"
      [] cls = "AssistantMessage" -> "assistant"
      [] cls = "SystemMessage"    -> "system"
      [] cls = "ResultMessage"    -> "result"
      [] OTHER                    -> "system"

\* C6: translation always yields a record; for an event whose fields can be
\* read, a User event yields type user, an Assistant event type assistant, a
\* System event type system with its own subtype, a Result event type result,
\* and any other event system/unknown_message carrying its type name and its
\* string form.
C6_TranslateTotal ==
    /\ \A i \in DOMAIN delivered : \E k \in DOMAIN out : out[k].ev = i
    /\ \A k \in DOMAIN out :
          (out[k].ev > 0 /\ ~ConvertRaises(delivered[out[k].ev])) =>
             LET message == delivered[out[k].ev]
                 rec     == out[k].rec
             IN  /\ rec.type = TypeOf(message.cls)
                 /\ message.cls = "SystemMessage" => rec.subtype = message.subtype
                 /\ message.cls \notin {"UserMessage", "AssistantMessage",
                                        "SystemMessage", "ResultMessage"}
                       => /\ rec.subtype = "unknown_message"
                          /\ rec.message_type = message.cls
                          /\ rec.copied = message.str

\* an unknown event and one of each known class have been translated
C6_Witness ==
    /\ Len(delivered) = 3
    /\ delivered[1] = StreamEvent
    /\ delivered[2].cls = "AssistantMessage"
    /\ delivered[3].cls = "ResultMessage"
    /\ out[1].rec.subtype = "unknown_message"
    /\ out[3].rec.type = "result"

\* C7: when the translation of an event raises, exactly one
\* system/conversion_error record, carrying the error and the event's type
\* name, is printed for it and nothing else, and the receive loop goes on
\* waiting for the next event.
C7_ConversionError ==
    [][ (EventStep /\ ConvertRaises(NewEvent))
            => /\ Len(out') = Len(out) + 1
               /\ SubSeq(out', 1, Len(out)) = out
               /\ out'[Len(out')].ev = Len(delivered')
               /\ out'[Len(out')].rec.type = "system"
               /\ out'[Len(out')].rec.subtype = "conversion_error"
               /\ out'[Len(out')].rec.error # ABSENT
               /\ out'[Len(out')].rec.message_type = NewEvent.cls
               /\ recvPc' = "wait"
      ]_vars

\* an event whose translation raised, then an event translated as usual
C7_Witness ==
    /\ Len(delivered) = 2
    /\ ConvertRaises(delivered[1])
    /\ delivered[2] = UserMessage
    /\ Len(out) = 2
    /\ out[1].rec.subtype = "conversion_error"
    /\ out[2].rec.type = "user" /\ out[2].ev = 2

\* the entries of standard output that answer neither an event nor a line:
\* the error record of the receive loop
LoopErrors(o) == SelectSeq(o, LAMBDA e : e.ev = 0 /\ e.ln = 0)

RecvOver == recvPc \in {"ended", "cancelled", "failed"}

\* C8: a cancelled receive loop ends without printing; a stream that raises
\* makes it print exactly one system/error record and end; once over, the loop
\* stays over and no record of an upstream event is printed any more.
C8_ReceiveLoopEnd ==
    [][ /\ (recvPc = "wait" /\ recvPc' = "cancelled") => out' = out
        /\ (recvPc = "wait" /\ recvPc' = "failed")
              => out' = PrintLine(out, ErrorRecord("error"), 0, 0)
        /\ RecvOver
              => /\ recvPc' = recvPc
                 /\ delivered' = delivered
                 /\ FromEvents(out') = FromEvents(out)
                 /\ LoopErrors(out') = LoopErrors(out)
      ]_vars

\* the receive loop was cancelled at shutdown after printing for one event
C8_Witness ==
    /\ recvPc = "cancelled"
    /\ Len(delivered) = 1
    /\ Len(FromEvents(out)) = 1
    /\ LoopErrors(out) = <<>>
    /\ proc = "exit0"

\* the text of the Text blocks of a block list, in order
RECURSIVE TextSegments(_)
TextSegments(bs) ==
    IF bs = <<>> THEN <<>>
    ELSE (IF Head(bs).cls = "TextBlock" THEN Head(bs).text ELSE <<>>)
         \o TextSegments(Tail(bs))

\* C9: content encoded to wire form and read back by the text rule of
\* handle_input gives the concatenation, in order, of the text of its Text
\* blocks (for content that is not a list: the text of the one block made).
C9_TextRoundTrip ==
    cpc = "extracted" =>
        text = (IF blocks.py = "list" THEN TextSegments(blocks.val) ELSE blocks.val)

\* [Text("2"), ToolUse, Text("+2")] gives "2+2"
C9_Witness ==
    /\ cpc = "extracted"
    /\ blocks = ListContent(<<TextBlock(<<"2">>), ToolUseBlock, TextBlock(<<"+", "2">>)>>)
    /\ text = <<"2", "+", "2">>

\* C10: when connect() fails nothing is ever printed on standard output, the
\* receive task is never created and the read loop never entered, "Fatal
\* error" is on standard error, and the process does not exit with status 0.
C10_FatalStartup ==
    fatal =>
        /\ out = <<>>
        /\ recvPc = "none"
        /\ mainPc \in {"disconnect", "done"}
        /\ lines = <<>> /\ delivered = <<>> /\ calls = <<>>
        /\ Len(err) >= 1 /\ err[1] = "Fatal error"
        /\ proc \in {"running", "exit1"}

\* connect() failed and the process has exited with status 1
C10_Witness ==
    /\ fatal
    /\ proc = "exit1"
    /\ err = <<"Fatal error", "Cleanup error">>


\* C11: end of input ends the read loop without printing anything and without
\* an SDK call, and takes the main task into disconnect(); the main task is
\* over only through disconnect(); the step that ends disconnect() prints
\* nothing on standard output and writes at most "Cleanup error" on standard
\* error; a process whose startup did not fail exits with status 0, whether
\* or not disconnect() failed.
C11_EndOfInput ==
    [][ /\ (LineStep /\ NewLine = EofLine)
            => /\ out' = out /\ err' = err /\ calls' = calls
               /\ mainPc = "read" /\ mainPc' = "disconnect"
        /\ (mainPc # "done" /\ mainPc' = "done") => mainPc = "disconnect"
        /\ (mainPc = "disconnect" /\ mainPc' # "disconnect")
            => /\ out' = out
               /\ err' \in {err, Append(err, "Cleanup error")}
        /\ (~fatal /\ proc = "running" /\ proc' # "running") => proc' = "exit0"
      ]_vars

\* end of input as the first thing read, disconnect() fails: nothing on
\* standard output, "Cleanup error" on standard error, exit status 0
C11_Witness ==
    /\ lines = <<EofLine>>
    /\ out = <<>>
    /\ err = <<"Cleanup error">>
    /\ ~fatal
    /\ proc = "exit0"

\* a line handle_input has no branch for: a control_request whose request is
\* an object (or is missing) and has a subtype other than interrupt, or an
\* object whose type is neither user nor control_request
IsUnhandledLine(line) ==
    /\ line.bytes = "text" /\ line.json = "object"
    /\ \/ line.type = "control_request" /\ line.request \notin {"interrupt", "null"}
       \/ line.type \notin {"user", "control_request"}

\* C12: a control_request line whose request subtype is not interrupt, and an
\* object line whose type is neither user nor control_request, print nothing
\* (no control_response, no error record), make no SDK call, leave activeId as
\* it is, and the loop goes on reading.
C12_UnhandledLineNoEffect ==
    [][ (LineStep /\ IsUnhandledLine(NewLine))
            => /\ out' = out
               /\ err' = err
               /\ calls' = calls
               /\ activeId' = activeId
               /\ mainPc' = "read"
      ]_vars

\* a set_mode request and a ping line have been read after a user line that
\* set the id: nothing was printed, the only call is the user line's
C12_Witness ==
    /\ lines = <<UserLine("S2"), ControlLine("r1", "set_mode"), OtherTypeLine>>
    /\ out = <<>>
    /\ Len(calls) = 1 /\ calls[1].ln = 1
    /\ activeId = "S2"
    /\ mainPc = "read"


\* the record printed for the event delivered as number i
RecordOf(o, i) == LET k == CHOOSE k \in DOMAIN o : o[k].ev = i IN o[k].rec

\* the event delivered is an init event equal to the one before it, and it is
\* translated in the state the first left: either the event carries a
\* session_id entry, or activeId is still what the first record shows
RepeatedInit ==
    /\ EventStep /\ IsInit(NewEvent)
    /\ delivered # <<>> /\ delivered[Len(delivered)] = NewEvent
    /\ \/ NewEvent.sid # ABSENT
       \/ activeId = RecordOf(out, Len(delivered)).session_id

\* C13: translating a system/init event again right after the same event
\* leaves activeId at the value the first translation gave it (the session_id
\* of the first record), prints one record equal to the first, and changes
\* nothing else.
C13_InitIdempotent ==
    [][ RepeatedInit
            => /\ activeId' = RecordOf(out, Len(delivered)).session_id
               /\ Len(out') = Len(out) + 1
               /\ RecordOf(out', Len(delivered')) = RecordOf(out, Len(delivered))
               /\ UNCHANGED <<mainPc, recvPc, client, session_id, err, calls,
                              fatal, proc, lines>>
      ]_vars

\* the same init event three times: three equal records, activeId is S1
C13_Witness ==
    /\ delivered = <<SystemMessage("init", "S1"), SystemMessage("init", "S1"),
                     SystemMessage("init", "S1")>>
    /\ Len(out) = 3
    /\ out[1].rec = out[2].rec /\ out[2].rec = out[3].rec
    /\ out[1].rec.session_id = "S1"
    /\ activeId = "S1"


\* C14: the read loop handles one line at a time: a pending SDK call is the
\* last call made, it was made for the last line read, and the main task is
\* suspended in it, so no line is read and no other call made before it has
\* ended (an interrupt call is made only when every earlier call has ended);
\* calls are made, and records for lines printed, in the order of the lines.
C14_NoPipelining ==
    /\ \A k \in DOMAIN calls :
          calls[k].status = "pending"
             => /\ k = Len(calls)
                /\ calls[k].ln = Len(lines)
                /\ mainPc = calls[k].op
    /\ mainPc \in {"query", "interrupt"}
          => calls # <<>> /\ calls[Len(calls)].status = "pending"
    /\ Cardinality({k \in DOMAIN calls : calls[k].status = "pending"}) <= 1
    /\ \A j, k \in DOMAIN calls : j < k => calls[j].ln < calls[k].ln
    /\ \A j, k \in DOMAIN out :
          (j < k /\ out[j].ln > 0 /\ out[k].ln > 0) => out[j].ln <= out[k].ln

\* a user line, then an interrupt request: the query has returned and the
\* interrupt call is pending
C14_Witness ==
    /\ lines = <<UserLine("S2"), ControlLine("r1", "interrupt")>>
    /\ Len(calls) = 2
    /\ calls[1].op = "query" /\ calls[1].status = "returned"
    /\ calls[2].op = "interrupt" /\ calls[2].status = "pending"
    /\ mainPc = "interrupt"


\* the id a user line resolves to: its session_id entry, the local id when the
\* line has no such entry
ResolvedId(line) == IF line.sid = ABSENT THEN session_id ELSE line.sid

\* C15: a user line with a message object writes the id resolved from the line
\* to activeId, whatever activeId was; when its content can be read it makes
\* one query call carrying that id; and every query call, pending or ended,
\* carries the id resolved from its own line, whatever activeId has become
\* since through init events.
C15_UserLineSessionId ==
    [][ /\ (LineStep /\ NewLine.bytes = "text" /\ NewLine.json = "object"
              /\ NewLine.type = "user" /\ NewLine.message = "dict")
            => activeId' = ResolvedId(NewLine)
        /\ (LineStep /\ IsUserLine(NewLine))
            => /\ calls' = Append(calls, Call("query", calls'[Len(calls')].text,
                                              ResolvedId(NewLine), Len(lines')))
               /\ mainPc' = "query"
        /\ \A k \in DOMAIN calls' :
              calls'[k].op = "query"
                 => calls'[k].session_id = ResolvedId(lines'[calls'[k].ln])
      ]_vars

\* a user line with S2 is in its query call when an init event with S1 is
\* translated: activeId is S1, the pending call carries S2
C15_Witness ==
    /\ lines = <<UserLine("S2")>>
    /\ delivered = <<SystemMessage("init", "S1")>>
    /\ mainPc = "query"
    /\ Len(calls) = 1 /\ calls[1].status = "pending" /\ calls[1].session_id = "S2"
    /\ activeId = "S1"


\* C16: the record printed for a User, Assistant or System event carries as
\* session_id the value of activeId when the event is translated (for a System
\* event the value after the init branch, which only an init event changes);
\* the record for a Result event carries the event's own session id when it
\* has one and activeId otherwise, and activeId stays as it is; translating and
\* printing are one step of the receive task, in which the read loop does
\* nothing.
C16_EnvelopeSessionId ==
    [][ (EventStep /\ ~ConvertRaises(NewEvent))
            => LET r == out'[Len(out')].rec
               IN  /\ Len(out') = Len(out) + 1
                   /\ out'[Len(out')].ev = Len(delivered')
                   /\ lines' = lines /\ calls' = calls /\ mainPc' = mainPc
                   /\ NewEvent.cls \in {"UserMessage", "AssistantMessage"}
                         => r.session_id = activeId /\ activeId' = activeId
                   /\ NewEvent.cls = "SystemMessage"
                         => /\ r.session_id = activeId'
                            /\ NewEvent.subtype # "init" => activeId' = activeId
                   /\ NewEvent.cls = "ResultMessage"
                         => /\ r.type = "result"
                            /\ r.session_id = (IF Falsy(NewEvent.session_id)
                                               THEN activeId
                                               ELSE NewEvent.session_id)
                            /\ activeId' = activeId
      ]_vars

\* no line read; an init event with S1, a Result event without a session id
\* and a User event: the three records carry S1
C16_Witness ==
    /\ lines = <<>>
    /\ delivered = <<SystemMessage("init", "S1"), ResultMessage(NULL), UserMessage>>
    /\ Len(out) = 3
    /\ out[1].rec.type = "system" /\ out[1].rec.session_id = "S1"
    /\ out[2].rec.type = "result" /\ out[2].rec.session_id = "S1"
    /\ out[3].rec.type = "user" /\ out[3].rec.session_id = "S1"
    /\ activeId = "S1"

\* the step in which the pending SDK call raises
CallRaises ==
    /\ calls # <<>> /\ Len(calls') = Len(calls)
    /\ calls[Len(calls)].status = "pending"
    /\ calls'[Len(calls)].status = "raised"

\* C17: when the SDK call made for a line raises, one system/error record is
\* printed for that line and the loop goes back to reading; a line whose call
\* has raised has exactly one record, the error record, and no
\* control_response; no line other than end of input takes the main task out
\* of the read loop.
C17_CallRaises ==
    [][ /\ CallRaises
            => /\ out' = PrintLine(out, ErrorRecord("error"), 0, calls[Len(calls)].ln)
               /\ mainPc' = "read"
               /\ lines' = lines /\ activeId' = activeId /\ proc' = proc
        /\ \A k \in DOMAIN calls' :
              calls'[k].status = "raised"
                 => /\ Cardinality({j \in DOMAIN out' : out'[j].ln = calls'[k].ln}) = 1
                    /\ \A j \in DOMAIN out' :
                          out'[j].ln = calls'[k].ln => out'[j].rec = ErrorRecord("error")
        /\ (LineStep /\ NewLine # EofLine)
            => mainPc' \in {"read", "query", "interrupt"}
        /\ (mainPc \in {"query", "interrupt"} /\ mainPc' # mainPc) => mainPc' = "read"
      ]_vars

\* the interrupt call of the first line raised; the user line after it was
\* handled and its query returned
C17_Witness ==
    /\ lines = <<ControlLine("r1", "interrupt"), UserLine("S2")>>
    /\ Len(calls) = 2
    /\ calls[1].op = "interrupt" /\ calls[1].status = "raised"
    /\ calls[2].op = "query" /\ calls[2].status = "returned"
    /\ Len(out) = 1 /\ out[1].rec = ErrorRecord("error") /\ out[1].ln = 1
    /\ mainPc = "read"

\* run() has assigned active_session_id = session_id
Seeded == recvPc # "none"

\* C18: the local id never changes; once seeded, activeId changes only in a
\* step that handles a user line or in a step that translates a System event
\* of subtype init.
C18_ActiveIdFrame ==
    [][ /\ session_id' = session_id
        /\ (Seeded /\ activeId' # activeId)
            => \/ /\ LineStep
                  /\ NewLine.bytes = "text" /\ NewLine.json = "object"
                  /\ NewLine.type = "user"
               \/ /\ EventStep
                  /\ NewEvent.cls = "SystemMessage" /\ NewEvent.subtype = "init"
      ]_vars

\* an init event moved activeId from the local id to S1, a user line moved it
\* to S2, and the interrupt request handled after that left it there
C18_Witness ==
    /\ delivered = <<SystemMessage("init", "S1")>>
    /\ lines = <<UserLine("S2"), ControlLine("r1", "interrupt")>>
    /\ out[1].ev = 1 /\ out[1].rec.session_id = "S1"
    /\ calls[1].session_id = "S2" /\ calls[1].status = "returned"
    /\ Len(calls) = 2 /\ calls[2].status = "returned"
    /\ activeId = "S2"
    /\ session_id = LocalId


\* C19: no event is translated before run() has assigned activeId: the step
\* that creates the receive task is the step that seeds activeId, it finds
\* activeId unset and no event translated, and sets it to the local id; the
\* first event, translated before any line is read, finds activeId equal to
\* the local id.
C19_SeededBeforeFirstEvent ==
    [][ /\ EventStep => Seeded /\ mainPc \notin {"new", "connect"}
        /\ (recvPc = "none" /\ recvPc' # "none")
            => /\ activeId = NULL /\ delivered = <<>> /\ out = <<>>
               /\ activeId' = session_id
               /\ mainPc' = "pipe"
        /\ (mainPc = "connect" /\ mainPc' = "pipe")
            => delivered = <<>> /\ activeId' = session_id
        /\ (EventStep /\ delivered = <<>> /\ lines = <<>>)
            => activeId = session_id /\ ~Falsy(activeId)
      ]_vars

\* the first event arrives before the read loop has started (the main task is
\* in connect_read_pipe): its record carries the local id
C19_Witness ==
    /\ mainPc = "pipe"
    /\ lines = <<>>
    /\ delivered = <<UserMessage>>
    /\ Len(out) = 1 /\ out[1].ev = 1
    /\ out[1].rec.session_id = LocalId
    /\ activeId = LocalId


\* the main task is suspended in an SDK call
InCall == mainPc \in {"query", "interrupt"}

\* C20: while the main task is suspended in a query or interrupt call and the
\* stream has an event, the receive task translates and prints it (or the
\* call ends, or the stream ends) - so with a call that never ends every
\* event on offer is printed; and once the receive loop is over, the read
\* loop at readline() with a line on offer reads it.
C20_LoopsIndependent ==
    /\ \A n \in 0..MaxInputs :
          (InCall /\ recvPc = "wait" /\ NInputs < MaxInputs /\ Len(delivered) = n)
             ~> \/ Len(delivered) > n /\ Len(FromEvents(out)) = Len(delivered)
                \/ ~InCall
                \/ recvPc # "wait"
    /\ \A n \in 0..MaxInputs :
          (RecvOver /\ mainPc = "read" /\ NInputs < MaxInputs /\ Len(lines) = n)
             ~> Len(lines) > n

\* the query of the only line read is still pending, and an init event and an
\* Assistant event that came after the line have been printed under S1
C20_Witness ==
    /\ lines = <<UserLine("S2")>>
    /\ InCall /\ calls[1].status = "pending" /\ calls[1].session_id = "S2"
    /\ delivered = <<SystemMessage("init", "S1"), AssistantMessage>>
    /\ Len(FromEvents(out)) = 2
    /\ out[2].rec.type = "assistant" /\ out[2].rec.session_id = "S1"

=============================================================================
